---- MODULE Spec2Model ----
(***************************************************************************)
(* rebrand.py: a one-shot batch job that walks a directory tree and        *)
(* replaces three brand strings in the text files it finds.                *)
(*                                                                         *)
(* Text is modelled as a sequence of one-character strings, so that        *)
(* str.replace, re.sub, `in`, glob suffix matching and sorted() are        *)
(* computed character by character the way Python computes them.  A file   *)
(* on disk is a sequence of the same characters plus BadByte, a byte that  *)
(* is not valid UTF-8.                                                     *)
(***************************************************************************)
EXTENDS Integers, Sequences, FiniteSets, TLC

VARIABLES
    disk,           \* relative path -> bytes of the file on disk
    fault,          \* relative path -> how the file system answers open/write
    order,          \* the order in which the directory scan meets the paths
    run,            \* which invocation of main() this is
    pc,             \* "walk", "done", "aborted"; "rules" in SpecRules
    ext_i,          \* index of the extension of the outer loop (line 63)
    idx,            \* paths the rglob generator of line 64 has yielded so far
    files_updated,  \* the list of line 61
    stdout,         \* the lines printed so far
    init_disk,      \* history: disk before the first run
    run_disk,       \* history: disk when the current run started
    visits,         \* history: calls of rebrand_file per path in this run
    skips,          \* history: `continue`s of line 66 per path in this run
    writes,         \* history: successful open(.., 'w') per path in this run
    content,        \* SpecRules: the local variable `content` of rebrand_file
    original_content, \* SpecRules: the local variable of line 30
    stage           \* SpecRules: how many replacement rules have been applied

vars == <<disk, fault, order, run, pc, ext_i, idx, files_updated, stdout,
          init_disk, run_disk, visits, skips, writes,
          content, original_content, stage>>

walkVars == <<disk, fault, order, run, ext_i, idx, files_updated, stdout,
              init_disk, run_disk, visits, skips, writes>>

ruleVars == <<content, original_content, stage>>

---------------------------------------------------------------------------
(* Characters and strings *)

\* a byte (sequence) that the UTF-8 decoder cannot decode
BadByte == "<ff>"

\* the printable ASCII characters in code point order, from 32 (space); the
\* quote, backslash and backtick are written as tokens
Ascii ==
    <<" ", "!", "<quote>", "#", "$", "%", "&", "'", "(", ")", "*", "+", ",", "-",
      ".", "/", "0", "1", "2", "3", "4", "5", "6", "7", "8", "9", ":", ";",
      "<", "=", ">", "?", "@", "A", "B", "C", "D", "E", "F", "G", "H", "I",
      "J", "K", "L", "M", "N", "O", "P", "Q", "R", "S", "T", "U", "V", "W",
      "X", "Y", "Z", "[", "<backslash>", "]", "^", "_", "<backtick>", "a", "b", "c", "d", "e",
      "f", "g", "h", "i", "j", "k", "l", "m", "n", "o", "p", "q", "r", "s",
      "t", "u", "v", "w", "x", "y", "z", "{", "|", "}", "~">>

\* ord(c) of a printable ASCII character
CodePoint == [c \in {Ascii[i] : i \in 1..Len(Ascii)} |->
                 31 + (CHOOSE i \in 1..Len(Ascii) : Ascii[i] = c)]

\* the lower-case form re.IGNORECASE compares by: 'A'..'Z' map to 'a'..'z'
ToLower == [c \in DOMAIN CodePoint |->
               IF CodePoint[c] >= 65 /\ CodePoint[c] <= 90
               THEN Ascii[CodePoint[c] + 32 - 31] ELSE c]

lower(c) == IF c \in DOMAIN ToLower THEN ToLower[c] ELSE c

Min(a, b) == IF a <= b THEN a ELSE b

\* s[i .. i+len(p)-1] == p
MatchAt(s, i, p) ==
    /\ i + Len(p) - 1 <= Len(s)
    /\ \A k \in 1..Len(p) : s[i + k - 1] = p[k]

\* the same, comparing lower-case forms
MatchAtIgnoreCase(s, i, p) ==
    /\ i + Len(p) - 1 <= Len(s)
    /\ \A k \in 1..Len(p) : lower(s[i + k - 1]) = lower(p[k])

\* Python's `p in s` for a non-empty p
Contains(s, p) == \E i \in 1..Len(s) : MatchAt(s, i, p)

ContainsIgnoreCase(s, p) == \E i \in 1..Len(s) : MatchAtIgnoreCase(s, i, p)

EndsWith(s, p) == Len(p) <= Len(s) /\ MatchAt(s, Len(s) - Len(p) + 1, p)

RECURSIVE ReplaceFrom(_, _, _, _)
\* str.replace from position i on: leftmost matches, never overlapping
ReplaceFrom(s, i, old, new) ==
    IF i > Len(s) THEN <<>>
    ELSE IF MatchAt(s, i, old)
         THEN new \o ReplaceFrom(s, i + Len(old), old, new)
         ELSE <<s[i]>> \o ReplaceFrom(s, i + 1, old, new)

RECURSIVE ReplaceFirstFrom(_, _, _, _)
ReplaceFirstFrom(s, i, old, new) ==
    IF i > Len(s) THEN <<>>
    ELSE IF MatchAt(s, i, old)
         THEN new \o SubSeq(s, i + Len(old), Len(s))
         ELSE <<s[i]>> \o ReplaceFirstFrom(s, i + 1, old, new)

\* what str.replace(old, new, 1) would do: only the first occurrence
str_replace_first(s, old, new) == ReplaceFirstFrom(s, 1, old, new)

\* s.replace(old, new)
str_replace(s, old, new) == ReplaceFrom(s, 1, old, new)

RECURSIVE SubFrom(_, _, _, _)
\* re.sub of a pattern of literal characters with re.IGNORECASE, from i on
SubFrom(s, i, pattern, repl) ==
    IF i > Len(s) THEN <<>>
    ELSE IF MatchAtIgnoreCase(s, i, pattern)
         THEN repl \o SubFrom(s, i + Len(pattern), pattern, repl)
         ELSE <<s[i]>> \o SubFrom(s, i + 1, pattern, repl)

\* what re.sub would do without flags=re.IGNORECASE
re_sub_case_sensitive(pattern, repl, s) == ReplaceFrom(s, 1, pattern, repl)

\* a pattern character matches itself, or, were the dot left unescaped, any
\* character but a newline
WildAt(s, i, p) ==
    /\ i + Len(p) - 1 <= Len(s)
    /\ \A k \in 1..Len(p) :
          IF p[k] = "." THEN s[i + k - 1] # "\n"
          ELSE lower(s[i + k - 1]) = lower(p[k])

RECURSIVE SubWildFrom(_, _, _, _)
SubWildFrom(s, i, pattern, repl) ==
    IF i > Len(s) THEN <<>>
    ELSE IF WildAt(s, i, pattern)
         THEN repl \o SubWildFrom(s, i + Len(pattern), pattern, repl)
         ELSE <<s[i]>> \o SubWildFrom(s, i + 1, pattern, repl)

\* what re.sub would do with the pattern r'ghl.agency.ai', dots unescaped
re_sub_unescaped(pattern, repl, s) == SubWildFrom(s, 1, pattern, repl)

RECURSIVE SubFirstFrom(_, _, _, _)
SubFirstFrom(s, i, pattern, repl) ==
    IF i > Len(s) THEN <<>>
    ELSE IF MatchAtIgnoreCase(s, i, pattern)
         THEN repl \o SubSeq(s, i + Len(pattern), Len(s))
         ELSE <<s[i]>> \o SubFirstFrom(s, i + 1, pattern, repl)

\* what re.sub(..., count=1) would do
re_sub_first(pattern, repl, s) == SubFirstFrom(s, 1, pattern, repl)

\* re.sub(pattern, repl, s, flags=re.IGNORECASE); the pattern of line 39 is
\* literal characters only (its dots are escaped)
re_sub(pattern, repl, s) == SubFrom(s, 1, pattern, repl)

---------------------------------------------------------------------------
(* The replacement rules of rebrand_file, lines 32-39 *)

BrandOld == <<"G", "H", "L", " ", "A", "g", "e", "n", "c", "y", " ", "A", "I">>
BrandNew == <<"B", "o", "t", "t", "l", "e", "n", "e", "c", "k", " ", "B", "o", "t", "s">>
SlugOld == <<"g", "h", "l", "-", "a", "g", "e", "n", "c", "y", "-", "a", "i">>
SlugNew == <<"b", "o", "t", "t", "l", "e", "n", "e", "c", "k", "-", "b", "o", "t", "s">>
DomainPattern == <<"g", "h", "l", ".", "a", "g", "e", "n", "c", "y", ".", "a", "i">>
DomainNew == <<"b", "o", "t", "t", "l", "e", "n", "e", "c", "k", "b", "o", "t", "s", ".", "c", "o", "m">>

\* line 33
replace_brand(s) == str_replace(s, BrandOld, BrandNew)
\* line 36
replace_slug(s) == str_replace(s, SlugOld, SlugNew)
\* line 39
replace_domain(s) == re_sub(DomainPattern, DomainNew, s)

\* lines 33-39: the three rules in sequence
apply_rules(s) == replace_domain(replace_slug(replace_brand(s)))

---------------------------------------------------------------------------
(* Paths, the skip test and the directory scan *)

\* line 52
base_dir ==
    <<"/", "r", "o", "o", "t", "/", "g", "i", "t", "h", "u", "b", "-", "r",
      "e", "p", "o", "s", "/">> \o SlugOld

\* lines 55-59
extensions ==
    << <<".", "m", "d">>, <<".", "t", "x", "t">>, <<".", "t", "s">>,
       <<".", "t", "s", "x">>, <<".", "j", "s">>, <<".", "j", "s", "x">>,
       <<".", "y", "a", "m", "l">>, <<".", "y", "m", "l">>,
       <<".", "j", "s", "o", "n">>, <<".", "p", "y">>, <<".", "s", "h">>,
       <<".", "t", "p", "l">>, <<".", "h", "t", "m", "l">>,
       <<".", "c", "s", "s">> >>

\* lines 12-21
skip_patterns ==
    << <<"n", "o", "d", "e", "_", "m", "o", "d", "u", "l", "e", "s">>,
       <<".", "g", "i", "t">>,
       <<"p", "a", "c", "k", "a", "g", "e", "-", "l", "o", "c", "k", ".",
         "j", "s", "o", "n">>,
       <<".", "p", "y", "c">>,
       <<"_", "_", "p", "y", "c", "a", "c", "h", "e", "_", "_">>,
       <<"d", "i", "s", "t">>,
       <<"b", "u", "i", "l", "d">>,
       <<".", "c", "a", "c", "h", "e">> >>

\* base_dir / rel, as str() shows it
full_path(rel) == base_dir \o <<"/">> \o rel

\* str(file_path.relative_to(base_dir)), line 69
relative_to(path) == SubSeq(path, Len(base_dir) + 2, Len(path))

\* the components of a path, split at "/"
Split(path) ==
    LET cuts == <<0>> \o SelectSeq([i \in 1..Len(path) |-> IF path[i] = "/" THEN i ELSE 0],
                                   LAMBDA i : i > 0)
                     \o <<Len(path) + 1>>
    IN [k \in 1..(Len(cuts) - 1) |-> SubSeq(path, cuts[k] + 1, cuts[k + 1] - 1)]

\* Path.name: the final component
name(path) ==
    LET slashes == {i \in 1..Len(path) : path[i] = "/"}
        last == IF slashes = {} THEN 0
                ELSE CHOOSE i \in slashes : \A j \in slashes : j <= i
    IN SubSeq(path, last + 1, Len(path))

\* what a skip test on whole path components would do
should_skip_components(path) ==
    \E j \in 1..Len(skip_patterns) :
        \E k \in 1..Len(Split(path)) : Split(path)[k] = skip_patterns[j]

\* line 22: any(pattern in str(path) for pattern in skip_patterns)
should_skip(path) ==
    \E j \in 1..Len(skip_patterns) : Contains(path, skip_patterns[j])

\* what matching the extension anywhere in the name would do
glob_match_anywhere(nm, ext) == Contains(nm, ext)

\* the pattern f'*{ext}' of line 64 against a file name: the extensions hold
\* no glob metacharacter, so the name matches when it ends with ext
glob_match(nm, ext) == EndsWith(nm, ext)

\* line 64: base_dir.rglob(f'*{ext}'), in the order the scan meets the paths
rglob(ext) ==
    LET hits == SelectSeq(order, LAMBDA rel : glob_match(name(rel), ext))
    IN [i \in 1..Len(hits) |-> full_path(hits[i])]

---------------------------------------------------------------------------
(* Reading and writing a file *)

RECURSIVE universal_newlines(_)
\* text mode with newline=None: "\r\n" and "\r" are read as "\n"
universal_newlines(s) ==
    IF s = <<>> THEN <<>>
    ELSE IF s[1] = "\r"
         THEN IF Len(s) >= 2 /\ s[2] = "\n"
              THEN <<"\n">> \o universal_newlines(SubSeq(s, 3, Len(s)))
              ELSE <<"\n">> \o universal_newlines(Tail(s))
         ELSE <<s[1]>> \o universal_newlines(Tail(s))

\* lines 27-28: open(.., 'r', encoding='utf-8', errors='ignore').read():
\* undecodable bytes are dropped, then newlines are translated
decode(bytes) == universal_newlines(SelectSeq(bytes, LAMBDA b : b # BadByte))

\* lines 43-44: the text as UTF-8 bytes; on POSIX "\n" is written as it is
encode(text) == text

\* what `except PermissionError` would catch: only a failed open
Caught_open_only(exc) == exc = "PermissionError"

\* line 47: `except Exception` catches every error open, read and write raise
Caught(exc) == exc \in {"PermissionError", "OSError"}

\* lines 47-49, and what happens without them: the exception leaves
\* rebrand_file and main
on_exception(exc, bytes, opened_w) ==
    IF Caught(exc)
    THEN [bytes |-> bytes, result |-> "False", printed |-> TRUE, wrote |-> opened_w]
    ELSE [bytes |-> bytes, result |-> "raise", printed |-> FALSE, wrote |-> opened_w]

\* what writing every file back would do
changed_always(new, old) == TRUE

\* line 42: content != original_content
changed(new, old) == new # old

\* lines 24-49: the outcomes of rebrand_file on a file holding `bytes` whose file
\* system answers as `flt` says:
\*   "ok"      every call succeeds
\*   "open_r"  open(.., 'r') raises (no permission, or a directory)
\*   "open_w"  open(.., 'w') raises (read-only file); nothing is truncated
\*   "write"   open(.., 'w') truncates the file, then write or close raises
\*             (disk full, I/O error) with at most MaxTorn characters on disk
MaxTorn == 2

rebrand_file(bytes, flt) ==
    IF flt = "open_r" THEN {on_exception("PermissionError", bytes, FALSE)}
    ELSE LET original == decode(bytes)
             new == apply_rules(original)
         IN IF changed(new, original)
            THEN IF flt = "open_w"
                 THEN {on_exception("PermissionError", bytes, FALSE)}
                 ELSE IF flt = "write"
                 THEN {on_exception("OSError", SubSeq(encode(new), 1, k), TRUE) :
                          k \in 0..Min(Len(encode(new)), MaxTorn)}
                 ELSE {[bytes |-> encode(new), result |-> "True",
                        printed |-> FALSE, wrote |-> TRUE]}
            ELSE {[bytes |-> bytes, result |-> "False",
                   printed |-> FALSE, wrote |-> FALSE]}

---------------------------------------------------------------------------
(* The summary, lines 71-79 *)

RECURSIVE StrLessFrom(_, _, _)
StrLessFrom(a, b, i) ==
    IF i > Len(a) THEN i <= Len(b)
    ELSE IF i > Len(b) THEN FALSE
    ELSE IF a[i] = b[i] THEN StrLessFrom(a, b, i + 1)
    ELSE CodePoint[a[i]] < CodePoint[b[i]]

\* a < b for Python strings: lexicographic by code point
str_lt(a, b) == StrLessFrom(a, b, 1)

RECURSIVE Insert(_, _)
Insert(x, t) ==
    IF t = <<>> THEN <<x>>
    ELSE IF str_lt(x, Head(t)) THEN <<x>> \o t
    ELSE <<Head(t)>> \o Insert(x, Tail(t))

RECURSIVE InsertionSort(_)
InsertionSort(s) ==
    IF s = <<>> THEN <<>>
    ELSE Insert(s[Len(s)], InsertionSort(SubSeq(s, 1, Len(s) - 1)))

\* what printing the list as collected would do
unsorted(s) == s

\* sorted(files_updated), line 76
sorted(s) == InsertionSort(s)

\* the number of paths the summary lists, line 76
DisplayCap == 50

Line(kind, path, n) == [kind |-> kind, path |-> path, n |-> n]

\* lines 71-79
summary(updated) ==
    <<Line("complete", <<>>, 0), Line("count", <<>>, Len(updated))>>
    \o (IF updated # <<>>
        THEN <<Line("header", <<>>, 0)>>
             \o (LET shown == SubSeq(sorted(updated), 1, Min(Len(updated), DisplayCap))
                 IN [i \in 1..Len(shown) |-> Line("item", shown[i], 0)])
             \o (IF Len(updated) > DisplayCap
                 THEN <<Line("more", <<>>, Len(updated) - DisplayCap)>>
                 ELSE <<>>)
        ELSE <<>>)

---------------------------------------------------------------------------
(* The trees the runs start from *)

\* how many times main() is invoked in a row
MaxRuns == 2

\* 'ok'
T_plain == <<"o", "k">>
\* 'GHL Agency AI'
T_brand == BrandOld
\* 'name: ghl-agency-ai-service'
T_slug == <<"n", "a", "m", "e", ":", " ">> \o SlugOld
          \o <<"-", "s", "e", "r", "v", "i", "c", "e">>
\* 'GHL.Agency.AI'
DomainMixed == <<"G", "H", "L", ".", "A", "g", "e", "n", "c", "y", ".", "A", "I">>
\* 'GHL.AGENCY.AI'
DomainUpper == <<"G", "H", "L", ".", "A", "G", "E", "N", "C", "Y", ".", "A", "I">>
\* 'Visit GHL.Agency.AI today'
T_domain == <<"V", "i", "s", "i", "t", " ">> \o DomainMixed
            \o <<" ", "t", "o", "d", "a", "y">>
\* 'GHL AgeGHL Agency AIncy AI': a brand name inside a broken brand name
T_nested == <<"G", "H", "L", " ", "A", "g", "e">> \o BrandOld
            \o <<"n", "c", "y", " ", "A", "I">>
\* 'ghl-agency-ai ghl.agency.ai ghl-agency-ai GHL.AGENCY.AI'
T_twice == SlugOld \o <<" ">> \o DomainPattern \o <<" ">> \o SlugOld
           \o <<" ">> \o DomainUpper
\* 'GHL Agen<ff>cy AI': the brand name with an undecodable byte inside
T_split == <<"G", "H", "L", " ", "A", "g", "e", "n", BadByte,
             "c", "y", " ", "A", "I">>
\* 'caf<ff>e'
T_bad == <<"c", "a", "f", BadByte, "e">>
\* 'ghl-agency-ai\r\n'
T_crlf_slug == SlugOld \o <<"\r", "\n">>
\* 'GHL Agency AI ghl-agency-ai ghl.agency.ai'
T_all == BrandOld \o <<" ">> \o SlugOld \o <<" ">> \o DomainPattern

TreeContents ==
    {T_plain, T_slug, T_domain, T_nested, T_twice, T_split, T_bad,
     T_crlf_slug}

Faults == {"ok", "open_r", "open_w", "write"}

\* 'a.md'
P_a == <<"a", ".", "m", "d">>
\* 'b.json': '.js' occurs in the name, which does not end with it
P_b == <<"b", ".", "j", "s", "o", "n">>
\* 'dist/c.js': under a directory named by a skip pattern
P_c == <<"d", "i", "s", "t", "/", "c", ".", "j", "s">>
\* 'redist.ts': a skip pattern inside a longer file name
P_d == <<"r", "e", "d", "i", "s", "t", ".", "t", "s">>
\* 'e.mdx': no eligible extension, though '.md' occurs in the name
P_e == <<"e", ".", "m", "d", "x">>

TreeOrders == {<<P_a, P_b, P_c, P_d, P_e>>, <<P_e, P_d, P_c, P_b, P_a>>}

Zero(files) == [f \in files |-> 0]

\* the state main() starts from, lines 52-61
StartOfMain(d) ==
    /\ pc = "walk"
    /\ ext_i = 1
    /\ idx = 0
    /\ files_updated = <<>>
    /\ stdout = <<>>
    /\ run_disk = d
    /\ visits = Zero(DOMAIN d)
    /\ skips = Zero(DOMAIN d)
    /\ writes = Zero(DOMAIN d)

RulesIdle ==
    /\ content = <<>>
    /\ original_content = <<>>
    /\ stage = 0

\* a small tree: two eligible files with any content and any fault, and three
\* files the walk must leave alone, full of targets
Init ==
    /\ \E ca \in TreeContents, cb \in TreeContents :
          disk = (P_a :> ca) @@ (P_b :> cb) @@ (P_c :> T_all) @@ (P_d :> T_all)
                 @@ (P_e :> T_all)
    /\ \E fa \in Faults, fb \in Faults :
          fault = (P_a :> fa) @@ (P_b :> fb) @@ (P_c :> "ok") @@ (P_d :> "ok")
                  @@ (P_e :> "ok")
    /\ order \in TreeOrders
    /\ run = 1
    /\ init_disk = disk
    /\ StartOfMain(disk)
    /\ RulesIdle

---------------------------------------------------------------------------
(* main(), lines 51-79 *)

\* the paths the generator of line 64 yields for the current extension
cands == rglob(extensions[ext_i])

\* the loop variable file_path of line 64
file_path == cands[idx + 1]

\* lines 65-66: the path matches a skip pattern; continue
VisitSkipped ==
    /\ pc = "walk"
    /\ idx < Len(cands)
    /\ should_skip(file_path)
    /\ idx' = idx + 1
    /\ skips' = [skips EXCEPT ![relative_to(file_path)] = @ + 1]
    /\ UNCHANGED <<disk, fault, order, run, pc, ext_i, files_updated, stdout,
                   init_disk, run_disk, visits, writes>>
    /\ UNCHANGED ruleVars

\* lines 65-69: rebrand_file(file_path), and the append when it returns True
VisitRebrand ==
    /\ pc = "walk"
    /\ idx < Len(cands)
    /\ ~should_skip(file_path)
    /\ LET rel == relative_to(file_path) IN
       \E o \in rebrand_file(disk[rel], fault[rel]) :
          /\ disk' = [disk EXCEPT ![rel] = o.bytes]
          /\ visits' = [visits EXCEPT ![rel] = @ + 1]
          /\ writes' = [writes EXCEPT ![rel] = IF o.wrote THEN @ + 1 ELSE @]
          /\ stdout' = IF o.printed
                       THEN Append(stdout, Line("error", file_path, 0))
                       ELSE stdout
          /\ pc' = IF o.result = "raise" THEN "aborted" ELSE pc
          /\ idx' = IF o.result = "raise" THEN idx ELSE idx + 1
          /\ files_updated' = IF o.result = "True"
                              THEN Append(files_updated, rel)
                              ELSE files_updated
    /\ UNCHANGED <<fault, order, run, ext_i, init_disk, run_disk, skips>>
    /\ UNCHANGED ruleVars

\* line 63: the generator is exhausted; on to the next extension
NextExtension ==
    /\ pc = "walk"
    /\ idx = Len(cands)
    /\ ext_i < Len(extensions)
    /\ ext_i' = ext_i + 1
    /\ idx' = 0
    /\ UNCHANGED <<disk, fault, order, run, pc, files_updated, stdout,
                   init_disk, run_disk, visits, skips, writes>>
    /\ UNCHANGED ruleVars

\* lines 71-79: after the last extension, print the summary
PrintSummary ==
    /\ pc = "walk"
    /\ idx = Len(cands)
    /\ ext_i = Len(extensions)
    /\ pc' = "done"
    /\ stdout' = stdout \o summary(files_updated)
    /\ UNCHANGED <<disk, fault, order, run, ext_i, idx, files_updated,
                   init_disk, run_disk, visits, skips, writes>>
    /\ UNCHANGED ruleVars

\* the tool is run again on the tree the run before left
RunAgain ==
    /\ pc = "done"
    /\ run < MaxRuns
    /\ run' = run + 1
    /\ pc' = "walk"
    /\ ext_i' = 1
    /\ idx' = 0
    /\ files_updated' = <<>>
    /\ stdout' = <<>>
    /\ run_disk' = disk
    /\ visits' = Zero(DOMAIN disk)
    /\ skips' = Zero(DOMAIN disk)
    /\ writes' = Zero(DOMAIN disk)
    /\ UNCHANGED <<disk, fault, order, init_disk>>
    /\ UNCHANGED ruleVars

Next ==
    \/ VisitSkipped
    \/ VisitRebrand
    \/ NextExtension
    \/ PrintSummary
    \/ RunAgain

Spec == Init /\ [][Next]_vars

---------------------------------------------------------------------------
(* A tree large enough for the summary to be cut *)

\* the number of 'f<i>.md' files of the large tree
PoolSize == 53

RECURSIVE Decimal(_)
\* str(i) for i >= 0
Decimal(i) ==
    IF i < 10 THEN <<Ascii[17 + i]>>
    ELSE Decimal(i \div 10) \o <<Ascii[17 + (i % 10)]>>

\* 'f<i>.md'
PoolPath(i) == <<"f">> \o Decimal(i) \o <<".", "m", "d">>

\* 'build/x.md': skipped
P_x == <<"b", "u", "i", "l", "d", "/", "x", ".", "m", "d">>
\* 'README.md': an upper-case name, which sorts before every 'f<i>.md'
P_r == <<"R", "E", "A", "D", "M", "E", ".", "m", "d">>

\* the scan meets f0, f<a>, f<2a>, ... (indices modulo PoolSize)
PoolOrder(a) == [i \in 1..PoolSize |-> PoolPath(((i - 1) * a) % PoolSize)]

PoolOrders ==
    {PoolOrder(a) : a \in {a \in {1, 7} :
        Cardinality({((i - 1) * a) % PoolSize : i \in 1..PoolSize}) = PoolSize}}

\* the first n files the scan meets hold a target, the others do not; the
\* tree also holds a skipped file and a file with an upper-case name
InitReport ==
    /\ order \in {o \o <<P_x, P_r>> : o \in PoolOrders}
    /\ \E n \in 0..PoolSize, cr \in {T_plain, T_domain} :
          disk = [f \in {order[i] : i \in 1..Len(order)} |->
                    IF f = P_x THEN T_all
                    ELSE IF f = P_r THEN cr
                    ELSE IF \E i \in 1..n : order[i] = f THEN T_brand
                    ELSE T_plain]
    /\ fault = [f \in DOMAIN disk |-> "ok"]
    /\ run = 1
    /\ init_disk = disk
    /\ StartOfMain(disk)
    /\ RulesIdle

SpecReport == InitReport /\ [][Next]_vars

---------------------------------------------------------------------------
(* The three rules applied to one text, one rule at a time *)

\* the number of fragments a text is made of
MaxFragments == 3

Fragments ==
    {BrandOld, SlugOld, DomainPattern, DomainMixed, DomainUpper,
     <<"G", "H", "L", "-", "A", "g", "e", "n", "c", "y", "-", "A", "I">>,
     <<"G", "H", "L", " ", "A", "g", "e">>, <<"n", "c", "y", " ", "A", "I">>,
     <<"g", "h", "l">>, <<"-", "a", "g", "e", "n", "c", "y", "-", "a", "i">>,
     <<".", "a", "g", "e", "n", "c", "y", ".", "a", "i">>,
     BrandNew, SlugNew, DomainNew, <<"-">>, <<"x">>}

RECURSIVE Texts(_)
\* every concatenation of at most n fragments
Texts(n) ==
    IF n = 0 THEN {<<>>}
    ELSE LET shorter == Texts(n - 1)
         IN shorter \cup {t \o f : t \in shorter, f \in Fragments}

InitRules ==
    /\ content \in Texts(MaxFragments) \cup {T_slug, T_domain}
    /\ original_content = content
    /\ stage = 0
    /\ pc = "rules"
    /\ disk = <<>>
    /\ fault = <<>>
    /\ order = <<>>
    /\ run = 1
    /\ ext_i = 1
    /\ idx = 0
    /\ files_updated = <<>>
    /\ stdout = <<>>
    /\ init_disk = <<>>
    /\ run_disk = <<>>
    /\ visits = <<>>
    /\ skips = <<>>
    /\ writes = <<>>

\* line 33
ApplyBrand ==
    /\ pc = "rules"
    /\ stage = 0
    /\ content' = replace_brand(content)
    /\ stage' = 1
    /\ UNCHANGED <<original_content, pc>>
    /\ UNCHANGED walkVars

\* line 36
ApplySlug ==
    /\ pc = "rules"
    /\ stage = 1
    /\ content' = replace_slug(content)
    /\ stage' = 2
    /\ UNCHANGED <<original_content, pc>>
    /\ UNCHANGED walkVars

\* line 39
ApplyDomain ==
    /\ pc = "rules"
    /\ stage = 2
    /\ content' = replace_domain(content)
    /\ stage' = 3
    /\ UNCHANGED <<original_content, pc>>
    /\ UNCHANGED walkVars

NextRules == ApplyBrand \/ ApplySlug \/ ApplyDomain

SpecRules == InitRules /\ [][NextRules]_vars

---------------------------------------------------------------------------
(* Vocabulary of the properties *)

Files == DOMAIN disk

\* the text holds one of the three targets
HasTarget(s) ==
    \/ Contains(s, BrandOld)
    \/ Contains(s, SlugOld)
    \/ ContainsIgnoreCase(s, DomainPattern)

\* every path of the trees above
KnownPaths ==
    {P_a, P_b, P_c, P_d, P_e, P_x, P_r} \cup {PoolPath(i) : i \in 0..(PoolSize - 1)}

\* path -> the file name ends with one of the 14 extensions
EligibleExtOf ==
    [p \in KnownPaths |->
        \E i \in 1..Len(extensions) : EndsWith(name(p), extensions[i])]

\* path -> the path string holds one of the skip substrings
SkipPathOf ==
    [p \in KnownPaths |->
        \E j \in 1..Len(skip_patterns) : Contains(full_path(p), skip_patterns[j])]

EligibleExt(rel) == EligibleExtOf[rel]

SkipPath(rel) == SkipPathOf[rel]

Processed(rel) == EligibleExt(rel) /\ ~SkipPath(rel)

Occurrences(rel) == {i \in 1..Len(files_updated) : files_updated[i] = rel}

InReport(rel) == Occurrences(rel) # {}

\* 'Error processing <path>: ...' was printed for the file in this run
ErrorLogged(rel) ==
    \E i \in 1..Len(stdout) :
        stdout[i].kind = "error" /\ stdout[i].path = full_path(rel)

\* an open() of the file failed in this run: an error, and nothing truncated
OpenFailed(rel) == ErrorLogged(rel) /\ writes[rel] = 0

LinesOf(kind) == SelectSeq(stdout, LAMBDA l : l.kind = kind)

---------------------------------------------------------------------------
(* Properties *)

\* C1 as stated: after a complete run no eligible, non-skipped file holds a
\* target, whatever its initial content.
C1_NoTargetLeft_AsStated ==
    pc = "done" =>
        \A f \in Files : Processed(f) => ~HasTarget(disk[f])

\* C1 amended: after a complete run every eligible, non-skipped file for which
\* no open() failed holds no target, neither in its bytes nor in its decoded
\* text (a file that could not be opened keeps its content, targets included).
C1_NoTargetLeft ==
    pc = "done" =>
        \A f \in Files :
            (Processed(f) /\ ~OpenFailed(f)) =>
                (~HasTarget(disk[f]) /\ ~HasTarget(decode(disk[f])))

\* a brand name nested in a broken brand name was rewritten and reported
C1_Witness ==
    /\ pc = "done"
    /\ init_disk[P_a] = T_nested
    /\ InReport(P_a)
    /\ disk[P_a] = <<"G", "H", "L", " ", "A", "g", "e">> \o BrandNew
                   \o <<"n", "c", "y", " ", "A", "I">>

\* C2: a second run right after a first one overwrites no file and reports
\* none: every later run leaves the disk as it found it.
C2_Idempotent ==
    run > 1 =>
        /\ files_updated = <<>>
        /\ disk = run_disk
        /\ \A f \in Files : writes[f] = 0

\* the second run has finished on a tree the first run changed
C2_Witness ==
    /\ run = 2
    /\ pc = "done"
    /\ \E f \in Files : disk[f] # init_disk[f] /\ visits[f] = 1

\* C3: a file whose path holds a skip substring anywhere is never handed to
\* rebrand_file (so never opened) and keeps its content.
C3_SkippedUntouched ==
    \A f \in Files :
        SkipPath(f) => (visits[f] = 0 /\ writes[f] = 0 /\ disk[f] = init_disk[f])

\* both skipped files were met by the scan, and still hold their targets
C3_Witness ==
    /\ pc = "done"
    /\ skips[P_c] = 1
    /\ skips[P_d] = 1
    /\ HasTarget(disk[P_c])
    /\ HasTarget(disk[P_d])

\* C4: a file whose name ends with none of the 14 extensions is never handed to
\* rebrand_file, nor even to should_skip, and keeps its content.
C4_OtherExtensionsUntouched ==
    \A f \in Files :
        ~EligibleExt(f) =>
            (visits[f] = 0 /\ skips[f] = 0 /\ disk[f] = init_disk[f])

\* the run is over, 'e.mdx' still holds its targets, and 'a.md' was visited
C4_Witness ==
    /\ pc = "done"
    /\ ~EligibleExt(P_e)
    /\ HasTarget(disk[P_e])
    /\ visits[P_a] = 1

\* C5 as stated: a visited file whose bytes hold no target is not written,
\* stays identical and is not reported.
C5_CleanFileUntouched_AsStated ==
    \A f \in Files :
        (visits[f] > 0 /\ ~HasTarget(run_disk[f])) =>
            (writes[f] = 0 /\ disk[f] = run_disk[f] /\ ~InReport(f))

\* C5 amended: a visited file whose decoded text (undecodable bytes dropped)
\* holds no target is not written, stays identical and is not reported.
C5_CleanFileUntouched ==
    \A f \in Files :
        (visits[f] > 0 /\ ~HasTarget(decode(run_disk[f]))) =>
            (writes[f] = 0 /\ disk[f] = run_disk[f] /\ ~InReport(f))

\* a file with an undecodable byte and no target was visited and kept as is
C5_Witness ==
    /\ pc = "done"
    /\ run_disk[P_a] = T_bad
    /\ fault[P_a] = "ok"
    /\ visits[P_a] = 1
    /\ disk[P_a] = T_bad

\* the steps main() still has to take: the runs to come, the extensions to
\* come, and the paths the current scan has yet to yield
Remaining ==
    LET perExt == Cardinality(Files) + 1
        perRun == (Len(extensions) + 1) * perExt
    IN (MaxRuns - run) * (perRun + 1)
       + (IF pc = "walk"
          THEN (Len(extensions) - ext_i) * perExt + (Len(cands) - idx) + 1
          ELSE 0)

\* main() has a next statement to execute
CanStep ==
    \/ idx < Len(cands) /\ should_skip(file_path)
    \/ /\ idx < Len(cands) /\ ~should_skip(file_path)
       /\ rebrand_file(disk[relative_to(file_path)],
                       fault[relative_to(file_path)]) # {}
    \/ idx = Len(cands) /\ ext_i <= Len(extensions)

\* C6: a failure on one file is caught in rebrand_file and leaves main()
\* running, the file is not reported, the walk visits every eligible file, and
\* every run reaches its summary: while it walks main() has a next step, and
\* every step brings the summary nearer.
C6_NoErrorAborts ==
    /\ [](pc # "aborted")
    /\ [](\A f \in Files : ErrorLogged(f) => ~InReport(f))
    /\ [](pc = "done" => \A f \in Files : Processed(f) => visits[f] = 1)
    /\ [](pc = "walk" => CanStep)
    /\ [][Remaining' < Remaining]_vars

\* the write of 'a.md' failed, 'b.json' was updated afterwards, and the
\* summary was printed
C6_Witness ==
    /\ pc = "done"
    /\ fault[P_a] = "write"
    /\ ErrorLogged(P_a)
    /\ InReport(P_b)
    /\ order[1] = P_a

\* C7: at the end of a run a path is in the report exactly if the file's
\* content on disk was changed by the run.
C7_ReportIffModified ==
    pc = "done" =>
        \A f \in Files : InReport(f) <=> disk[f] # run_disk[f]

\* C8: the summary prints the total n, then the min(n, 50) smallest paths in
\* ascending order, then 'and n - 50 more' exactly if n > 50; every reported
\* file, listed or not, was overwritten.
C8_Summary ==
    pc = "done" =>
        LET n == Len(files_updated)
            items == LinesOf("item")
            more == LinesOf("more")
            listed == {items[i].path : i \in 1..Len(items)}
            reported == {files_updated[i] : i \in 1..n}
        IN /\ Len(LinesOf("count")) = 1
           /\ LinesOf("count")[1].n = n
           /\ Len(items) = IF n <= 50 THEN n ELSE 50
           /\ \A i \in 1..Len(items) : \A j \in 1..Len(items) :
                 i < j => str_lt(items[i].path, items[j].path)
           /\ listed \subseteq reported
           /\ \A p \in reported \ listed : \A q \in listed : str_lt(q, p)
           /\ (more # <<>>) <=> (n > 50)
           /\ n > 50 => (Len(more) = 1 /\ more[1].n = n - 50)
           /\ Len(items) + (IF more = <<>> THEN 0 ELSE more[1].n) = n
           /\ \A p \in reported :
                 writes[p] = 1 /\ disk[p] # run_disk[p] /\ ~HasTarget(disk[p])

\* more than 50 files were updated: the list is cut and a remainder is printed
C8_Witness ==
    /\ pc = "done"
    /\ Len(files_updated) > 50
    /\ Len(LinesOf("item")) = 50
    /\ Len(LinesOf("more")) = 1
    /\ LinesOf("item")[1].path = P_r

RECURSIVE SimultaneousFrom(_, _)
\* every occurrence of a target in the original text replaced by its own
\* replacement, every other character kept
SimultaneousFrom(s, i) ==
    IF i > Len(s) THEN <<>>
    ELSE IF MatchAt(s, i, BrandOld)
         THEN BrandNew \o SimultaneousFrom(s, i + Len(BrandOld))
    ELSE IF MatchAt(s, i, SlugOld)
         THEN SlugNew \o SimultaneousFrom(s, i + Len(SlugOld))
    ELSE IF MatchAtIgnoreCase(s, i, DomainPattern)
         THEN DomainNew \o SimultaneousFrom(s, i + Len(DomainPattern))
    ELSE <<s[i]>> \o SimultaneousFrom(s, i + 1)

\* 'name: bottleneck-bots-service'
R_slug == <<"n", "a", "m", "e", ":", " ">> \o SlugNew
          \o <<"-", "s", "e", "r", "v", "i", "c", "e">>
\* 'Visit bottleneckbots.com today'
R_domain == <<"V", "i", "s", "i", "t", " ">> \o DomainNew
            \o <<" ", "t", "o", "d", "a", "y">>

\* C9: the three rules applied in sequence give what replacing every target
\* of the original text at once gives; in particular the two documented
\* examples come out as documented.
C9_SequentialIsSimultaneous ==
    stage = 3 =>
        /\ content = SimultaneousFrom(original_content, 1)
        /\ original_content = T_slug => content = R_slug
        /\ original_content = T_domain => content = R_domain

\* a text holding the slug, the domain and the brand name, all replaced
C9_Witness ==
    /\ stage = 3
    /\ original_content = SlugOld \o DomainUpper \o BrandOld
    /\ content = SlugNew \o DomainNew \o BrandNew

\* C10: within one run a file is overwritten at most once and reported at most
\* once, and a further visit of a visited file would neither write nor report.
C10_AtMostOnce ==
    \A f \in Files :
        /\ writes[f] <= 1
        /\ Cardinality(Occurrences(f)) <= 1
        /\ visits[f] > 0 =>
              \A o \in rebrand_file(disk[f], fault[f]) :
                  ~o.wrote /\ o.result = "False"

\* a file with several targets was overwritten once and reported once
C10_Witness ==
    /\ pc = "done"
    /\ init_disk[P_a] = T_twice
    /\ writes[P_a] = 1
    /\ Cardinality(Occurrences(P_a)) = 1

====
